---- MODULE Spec2Model ----
(***************************************************************************)
(* Model of the `collections` crate: the field model (field.rs) and the    *)
(* schema assembler (schema.rs).  Rust `String`s are TLA+ strings, a       *)
(* `Vec<T>` is a sequence, and an `Option<T>` is a sequence of length 0    *)
(* (None) or 1 (Some).                                                     *)
(***************************************************************************)
EXTENDS Integers, Sequences, FiniteSets, TLC

VARIABLES table_name,       \* Schema.table_name
          fields,           \* Schema.fields
          call,             \* the last operation called, with its arguments
          ret,              \* what that operation returned
          direct            \* SpecBuilder: a Schema given the same calls directly

vars == <<table_name, fields, call, ret, direct>>

\* Longest fields vector the model explores.
MaxFields == 2

----------------------------------------------------------------------------
(* Option<T> *)

None == <<>>
Some(v) == <<v>>

----------------------------------------------------------------------------
(* str::to_lowercase and str::trim, over the ASCII letters and whitespace *)

UpperChars == "ABCDEFGHIJKLMNOPQRSTUVWXYZ"
LowerChars == "abcdefghijklmnopqrstuvwxyz"

CharAt(s, i) == SubSeq(s, i, i)

\* char::to_lowercase as a table: each capital to its small letter.
UpperToLower ==
    [c \in {CharAt(UpperChars, i) : i \in 1..Len(UpperChars)} |->
        CharAt(LowerChars, CHOOSE i \in 1..Len(UpperChars) : CharAt(UpperChars, i) = c)]

char_to_lowercase(c) ==
    IF c \in DOMAIN UpperToLower THEN UpperToLower[c] ELSE c

RECURSIVE to_lowercase(_)
to_lowercase(s) ==
    IF Len(s) = 0 THEN ""
    ELSE char_to_lowercase(CharAt(s, 1)) \o to_lowercase(SubSeq(s, 2, Len(s)))

is_whitespace(c) == c \in {" ", "\t", "\n", "\r", "\f"}

RECURSIVE trim_start(_)
trim_start(s) ==
    IF Len(s) > 0 /\ is_whitespace(CharAt(s, 1))
    THEN trim_start(SubSeq(s, 2, Len(s)))
    ELSE s

RECURSIVE trim_end(_)
trim_end(s) ==
    IF Len(s) > 0 /\ is_whitespace(CharAt(s, Len(s)))
    THEN trim_end(SubSeq(s, 1, Len(s) - 1))
    ELSE s

trim(s) == trim_end(trim_start(s))

----------------------------------------------------------------------------
(* field.rs: FieldType *)

FieldType == {"Integer", "Double", "Serial", "Char", "Text", "Timestamp",
              "Date", "Time", "Boolean", "Json", "UUID"}

FieldType_fmt(t) ==
    CASE t = "Integer"   -> "BIGINT"
      [] t = "Double"    -> "DOUBLE PRECISION"
      [] t = "Serial"    -> "BIGSERIAL"
      [] t = "Char"      -> "VARCHAR(255)"
      [] t = "Text"      -> "TEXT"
      [] t = "Timestamp" -> "TIMESTAMP WITHOUT TIME ZONE"
      [] t = "Date"      -> "DATE"
      [] t = "Time"      -> "TIME"
      [] t = "Boolean"   -> "BOOLEAN"
      [] t = "Json"      -> "JSON"
      [] t = "UUID"      -> "UUID"

----------------------------------------------------------------------------
(* field.rs: SystemField *)

SystemField_fmt(f) ==
    CASE f = "Id"         -> "id"
      [] f = "InsertedAt" -> "inserted_at"
      [] f = "UpdatedAt"  -> "updated_at"

\* Mutant: the static FIELDS array lists UpdatedAt before InsertedAt.
SystemField_iterator_swapped == <<"Id", "UpdatedAt", "InsertedAt">>

SystemField_iterator == <<"Id", "InsertedAt", "UpdatedAt">>

SystemField_names ==
    [i \in 1..Len(SystemField_iterator) |-> SystemField_fmt(SystemField_iterator[i])]

to_sql_options(f) ==
    CASE f = "Id"         -> "UUID PRIMARY KEY DEFAULT gen_random_uuid()"
      [] f = "InsertedAt" -> "TIMESTAMP without time zone NOT NULL"
      [] f = "UpdatedAt"  -> "TIMESTAMP without time zone NOT NULL"

SystemField_to_sql(f) == SystemField_fmt(f) \o " " \o to_sql_options(f)

----------------------------------------------------------------------------
(* field.rs: FieldOptions *)

FieldOptions_new(unique, not_null, default) ==
    [unique |-> unique, not_null |-> not_null, default |-> default]

FieldOptions_default == FieldOptions_new(FALSE, FALSE, None)

----------------------------------------------------------------------------
(* field.rs: Field *)

\* Mutant: the options are stored as given, absent ones staying absent.
field_options_or_default_keep(options) == options

field_options_or_default(options) ==
    IF options # None THEN Some(options[1]) ELSE Some(FieldOptions_default)

\* Mutant: the name is stored trimmed.
Field_new_trimmed(name, type_, options) ==
    [name |-> trim(name), type_ |-> type_,
     options |-> field_options_or_default(options)]

Field_new(name, type_, options) ==
    [name |-> name, type_ |-> type_, options |-> field_options_or_default(options)]

\* Mutant: Double is not among the numeric types.
is_numeric_field_no_double(f) ==
    f.type_ = "Integer" \/ f.type_ = "Serial"

is_numeric_field(f) ==
    f.type_ = "Integer" \/ f.type_ = "Serial" \/ f.type_ = "Double"

is_boolean_field(f) == f.type_ = "Boolean"

has_options(f) == f.options # None

not_null_option(f) ==
    IF f.options # None THEN f.options[1].not_null ELSE FALSE

has_default(f) ==
    IF f.options # None THEN f.options[1].default # None ELSE FALSE

default_value(f) ==
    IF has_default(f) THEN f.options[1].default[1] ELSE ""

not_null_sql(f) == IF not_null_option(f) THEN " NOT NULL" ELSE ""

default_sql(f) ==
    IF has_default(f)
    THEN IF is_numeric_field(f) \/ is_boolean_field(f)
         THEN " DEFAULT " \o default_value(f)
         ELSE " DEFAULT '" \o default_value(f) \o "'"
    ELSE ""

\* Mutant: the default clause is pushed before the NOT NULL clause.
Field_to_sql_swapped(f) ==
    LET sql == f.name \o " " \o FieldType_fmt(f.type_)
    IN  IF has_options(f)
        THEN sql \o default_sql(f) \o not_null_sql(f)
        ELSE sql

Field_to_sql(f) ==
    LET sql == f.name \o " " \o FieldType_fmt(f.type_)
    IN  IF has_options(f)
        THEN sql \o not_null_sql(f) \o default_sql(f)
        ELSE sql

----------------------------------------------------------------------------
(* schema.rs: Schema *)

Schema_new == [table_name |-> "", fields |-> <<>>]

\* `field.to_lowercase().trim()` for each field of SystemField::names().
system_names_normalized ==
    [i \in 1..Len(SystemField_names) |-> trim(to_lowercase(SystemField_names[i]))]

\* Mutant: the comparison is case-sensitive (no to_lowercase on the name).
is_system_field_name_case_sensitive(name) ==
    LET n == trim(name)
    IN  \E i \in 1..Len(system_names_normalized) : system_names_normalized[i] = n

\* The loop of add_field over SystemField::names(): TRUE when it returns early.
is_system_field_name(name) ==
    LET n == trim(to_lowercase(name))
    IN  \E i \in 1..Len(system_names_normalized) : system_names_normalized[i] = n

\* Mutant: the name is compared without trimming its whitespace.
Schema_add_field_no_trim(fs, name, type_, options) ==
    IF \E i \in 1..Len(system_names_normalized) :
           system_names_normalized[i] = to_lowercase(name)
    THEN fs
    ELSE Append(fs, Field_new(name, type_, options))

\* Mutant: a name the schema already has is not added again.
Schema_add_field_dedup(fs, name, type_, options) ==
    IF is_system_field_name(name) \/ \E i \in 1..Len(fs) : fs[i].name = name
    THEN fs
    ELSE Append(fs, Field_new(name, type_, options))

\* The fields vector after self.add_field(name, type_, options).
Schema_add_field(fs, name, type_, options) ==
    IF is_system_field_name(name)
    THEN fs
    ELSE Append(fs, Field_new(name, type_, options))

system_fields_sql_from(i) ==
    LET F[k \in 1..(Len(SystemField_iterator) + 1)] ==
            IF k > Len(SystemField_iterator) THEN ""
            ELSE SystemField_to_sql(SystemField_iterator[k]) \o ", " \o F[k + 1]
    IN  F[i]

system_fields_sql == system_fields_sql_from(1)

\* Mutant: a clause for every field that has options, unique or not.
unique_constraints_sql_any(tn, field, options) ==
    IF options # None
    THEN Some("CONSTRAINT " \o tn \o "_" \o field.name \o "_key UNIQUE ("
              \o field.name \o ")")
    ELSE None

unique_constraints_sql(tn, field, options) ==
    IF options # None /\ options[1].unique
    THEN Some("CONSTRAINT " \o tn \o "_" \o field.name \o "_key UNIQUE ("
              \o field.name \o ")")
    ELSE None

\* [String]::join
RECURSIVE join(_, _)
join(v, sep) ==
    IF Len(v) = 0 THEN ""
    ELSE IF Len(v) = 1 THEN v[1]
    ELSE v[1] \o sep \o join(Tail(v), sep)

\* `a - b` on usize.  An overflow panics in a build with overflow checks
\* and wraps in one without: `overflow` records that it happened.
usize_sub(a, b) ==
    IF a >= b THEN [overflow |-> FALSE, value |-> a - b]
    ELSE [overflow |-> TRUE, value |-> 0]

\* Mutant: `index <= x`, a separator after the last field too.
usize_le(index, x) == x.overflow \/ index <= x.value

\* `index < x` where x is the result of usize_sub; a wrapped result is
\* larger than any index of a Vec.
usize_lt(index, x) == x.overflow \/ index < x.value

\* The `for (index, field) in self.fields.iter().enumerate()` loop of to_sql,
\* from position `index` (0-based) with the accumulated `sql` and `constraints`.
RECURSIVE to_sql_loop(_, _, _, _)
to_sql_loop(tn, fs, index, acc) ==
    IF index >= Len(fs) THEN acc
    ELSE LET field == fs[index + 1]
             sql1  == acc.sql \o Field_to_sql(field)
             c     == unique_constraints_sql(tn, field, field.options)
             last  == usize_sub(Len(fs), 1)
         IN  to_sql_loop(tn, fs, index + 1,
                 [sql |-> IF usize_lt(index, last) THEN sql1 \o ", " ELSE sql1,
                  constraints |-> IF c # None THEN Append(acc.constraints, c[1])
                                  ELSE acc.constraints,
                  overflow |-> acc.overflow \/ last.overflow])

\* Mutant: `self.fields.len() - 1` is computed once, before the loop.
Schema_to_sql_hoisted(tn, fs) ==
    LET last == usize_sub(Len(fs), 1)
        sql0 == "CREATE TABLE " \o tn \o " (" \o system_fields_sql
        acc  == to_sql_loop(tn, fs, 0,
                    [sql |-> sql0, constraints |-> <<>>, overflow |-> FALSE])
        sql1 == IF Len(acc.constraints) # 0
                THEN acc.sql \o ", " \o join(acc.constraints, ", ")
                ELSE acc.sql
    IN  [overflow |-> last.overflow \/ acc.overflow, value |-> sql1 \o ");"]

\* Schema::to_sql.  `value` is the String returned; `overflow` is TRUE when
\* the call evaluated an overflowing subtraction, which panics instead of
\* returning in a build with overflow checks.
Schema_to_sql(tn, fs) ==
    LET sql0 == "CREATE TABLE " \o tn \o " (" \o system_fields_sql
        acc  == to_sql_loop(tn, fs, 0,
                    [sql |-> sql0, constraints |-> <<>>, overflow |-> FALSE])
        sql1 == IF Len(acc.constraints) # 0
                THEN acc.sql \o ", " \o join(acc.constraints, ", ")
                ELSE acc.sql
    IN  [overflow |-> acc.overflow, value |-> sql1 \o ");"]

----------------------------------------------------------------------------
(* schema.rs: SchemaBuilder *)

SchemaBuilder_new == [schema |-> Schema_new]

\* Mutant: the builder starts a new Schema of that name.
SchemaBuilder_with_table_name_reset(b, name) ==
    [schema |-> [table_name |-> name, fields |-> <<>>]]

SchemaBuilder_with_table_name(b, name) ==
    [b EXCEPT !.schema.table_name = name]

\* Mutant: the builder pushes the field itself, without add_field's check.
SchemaBuilder_with_field_unchecked(b, name, type_, options) ==
    [b EXCEPT !.schema.fields = Append(@, Field_new(name, type_, options))]

SchemaBuilder_with_field(b, name, type_, options) ==
    [b EXCEPT !.schema.fields = Schema_add_field(@, name, type_, options)]

SchemaBuilder_build(b) == b.schema

SchemaBuilder_default == SchemaBuilder_new

Schema_default == SchemaBuilder_build(SchemaBuilder_default)

\* The builder that owns the Schema of table_name and fields.
Builder == [schema |-> [table_name |-> table_name, fields |-> fields]]

----------------------------------------------------------------------------
(* Inputs *)

\* Names accepted by add_field: a plain one, and one with whitespace and a
\* capital (to be stored as given) that only starts like a system name.
UserNames == {"name", " Ids"}

\* Case and whitespace variants of the three system field names.
ReservedNames == {"id", " Inserted_At\t", "UPDATED_AT\n"}

Names == UserNames \cup ReservedNames

TableNames == {"users", "t"}

\* The <<type_, options>> add_field is called with: no options, a unique
\* column, and a NOT NULL column with a numeric default.
FieldArgs == {<<"Char", None>>,
              <<"Char", Some(FieldOptions_new(TRUE, FALSE, None))>>,
              <<"Integer", Some(FieldOptions_new(FALSE, TRUE, Some("5")))>>}

\* The defaults Field::to_sql is rendered with: absent, a number, and a
\* text with an embedded quote.
Defaults == {None, Some("5"), Some("it's")}

\* Every Option<FieldOptions> over Defaults.
AllOptions ==
    {None} \cup {Some(FieldOptions_new(u, n, d)) :
                    u \in BOOLEAN, n \in BOOLEAN, d \in Defaults}

Unit == [overflow |-> FALSE, value |-> ""]

Called(op, name, type_, options) ==
    [op |-> op, name |-> name, type_ |-> type_, options |-> options]

----------------------------------------------------------------------------
(* State machine: one Schema and the calls made on it, directly or through *)
(* a SchemaBuilder that owns it (SchemaBuilder.schema is a pub field).     *)

\* Schema::new(), which is also the schema of SchemaBuilder::new().
Init ==
    /\ table_name = Schema_new.table_name
    /\ fields = Schema_new.fields
    /\ call = Called("new", "", "", None)
    /\ ret = Unit
    /\ direct = Schema_new

\* schema.add_field(name, type_, options)
AddField(name, type_, options) ==
    LET fs == Schema_add_field(fields, name, type_, options)
    IN  /\ Len(fs) <= MaxFields
        /\ fields' = fs
        /\ call' = Called("add_field", name, type_, options)
        /\ ret' = Unit
        /\ UNCHANGED <<table_name, direct>>

\* builder.with_field(name, type_, options): self.schema.add_field(...)
WithField(name, type_, options) ==
    LET fs == Schema_add_field(fields, name, type_, options)
    IN  /\ Len(fs) <= MaxFields
        /\ fields' = fs
        /\ call' = Called("with_field", name, type_, options)
        /\ ret' = Unit
        /\ UNCHANGED <<table_name, direct>>

\* builder.with_table_name(name)
WithTableName(name) ==
    LET b == SchemaBuilder_with_table_name(Builder, name)
    IN  /\ table_name' = b.schema.table_name
        /\ fields' = b.schema.fields
        /\ call' = Called("with_table_name", name, "", None)
        /\ ret' = Unit
        /\ UNCHANGED direct

\* Mutant: to_sql takes the fields out of the schema as it renders them.
ToSql_drain ==
    /\ ret' = Schema_to_sql(table_name, fields)
    /\ call' = Called("to_sql", "", "", None)
    /\ fields' = <<>>
    /\ UNCHANGED <<table_name, direct>>

\* schema.to_sql()
ToSql ==
    /\ ret' = Schema_to_sql(table_name, fields)
    /\ call' = Called("to_sql", "", "", None)
    /\ UNCHANGED <<table_name, fields, direct>>

Next ==
    \/ \E n \in Names, a \in FieldArgs : AddField(n, a[1], a[2])
    \/ \E n \in Names, a \in FieldArgs : WithField(n, a[1], a[2])
    \/ \E n \in TableNames : WithTableName(n)
    \/ ToSql

Spec == Init /\ [][Next]_vars

----------------------------------------------------------------------------
(* Field::to_sql on its own: one Field built by Field::new, then rendered *)

\* Field::new(name, type_, options), for every type and every options.
InitField ==
    /\ table_name = ""
    /\ \E n \in UserNames, t \in FieldType, o \in AllOptions :
          /\ fields = <<Field_new(n, t, o)>>
          /\ call = Called("Field::new", n, t, o)
    /\ ret = Unit
    /\ direct = Schema_new

\* field.to_sql()
FieldToSql ==
    /\ ret' = [overflow |-> FALSE, value |-> Field_to_sql(fields[1])]
    /\ call' = [call EXCEPT !.op = "Field::to_sql"]
    /\ UNCHANGED <<table_name, fields, direct>>

NextField == FieldToSql

SpecField == InitField /\ [][NextField]_vars

----------------------------------------------------------------------------
(* Fields added without options, or with the default ones, of every type *)

\* Absent options, and FieldOptions::default() given explicitly.
NoOptions == {None, Some(FieldOptions_default)}

PlainNames == {"name"}

NextOptions ==
    \/ \E n \in PlainNames, t \in FieldType, o \in NoOptions : AddField(n, t, o)
    \/ \E n \in PlainNames, t \in FieldType, o \in NoOptions : WithField(n, t, o)
    \/ ToSql

SpecOptions == Init /\ [][NextOptions]_vars

----------------------------------------------------------------------------
(* A SchemaBuilder (its schema is table_name and fields) and, beside it,  *)
(* the Schema `direct`, made by Schema::new or Schema::default, on which   *)
(* each call of the builder is repeated directly.                          *)

\* SchemaBuilder::new() or SchemaBuilder::default(); Schema::new() or
\* Schema::default().
InitBuilder ==
    /\ \E op \in {"SchemaBuilder::new", "SchemaBuilder::default"} :
          LET b == IF op = "SchemaBuilder::new" THEN SchemaBuilder_new
                   ELSE SchemaBuilder_default
          IN  /\ table_name = b.schema.table_name
              /\ fields = b.schema.fields
              /\ call = Called(op, "", "", None)
    /\ direct \in {Schema_new, Schema_default}
    /\ ret = Unit

\* builder.with_table_name(name); direct.table_name = name
BuilderWithTableName(name) ==
    LET b == SchemaBuilder_with_table_name(Builder, name)
    IN  /\ call.op # "build"
        /\ table_name' = b.schema.table_name
        /\ fields' = b.schema.fields
        /\ direct' = [direct EXCEPT !.table_name = name]
        /\ call' = Called("with_table_name", name, "", None)
        /\ ret' = Unit

\* builder.with_field(name, type_, options);
\* direct.add_field(name, type_, options)
BuilderWithField(name, type_, options) ==
    LET b == SchemaBuilder_with_field(Builder, name, type_, options)
        d == Schema_add_field(direct.fields, name, type_, options)
    IN  /\ call.op # "build"
        /\ Len(b.schema.fields) <= MaxFields
        /\ Len(d) <= MaxFields
        /\ table_name' = b.schema.table_name
        /\ fields' = b.schema.fields
        /\ direct' = [direct EXCEPT !.fields = d]
        /\ call' = Called("with_field", name, type_, options)
        /\ ret' = Unit

\* builder.build(): the Schema the builder held
BuilderBuild ==
    LET s == SchemaBuilder_build(Builder)
    IN  /\ call.op # "build"
        /\ table_name' = s.table_name
        /\ fields' = s.fields
        /\ call' = Called("build", "", "", None)
        /\ ret' = Unit
        /\ UNCHANGED direct

NextBuilder ==
    \/ \E n \in TableNames : BuilderWithTableName(n)
    \/ \E n \in Names, a \in FieldArgs : BuilderWithField(n, a[1], a[2])
    \/ BuilderBuild

SpecBuilder == InitBuilder /\ [][NextBuilder]_vars

----------------------------------------------------------------------------
(* Properties *)

IsPrefix(p, s) == Len(p) <= Len(s) /\ SubSeq(s, 1, Len(p)) = p
IsSuffix(p, s) == Len(p) <= Len(s) /\ SubSeq(s, Len(s) - Len(p) + 1, Len(s)) = p

\* A name that, lowercased and trimmed, is one of the three reserved names.
IsReserved(name) ==
    trim(to_lowercase(name)) \in {"id", "inserted_at", "updated_at"}

\* C1: add_field with a name that, lowercased and trimmed, is "id",
\* "inserted_at" or "updated_at" is a silent no-op: fields and table_name
\* are what they were before the call, whatever the type and options, and
\* the call returns normally.
C1_ReservedAddFieldIsNoOp ==
    [][(call'.op = "add_field" /\ IsReserved(call'.name))
          => /\ fields' = fields
             /\ table_name' = table_name
             /\ ret' = Unit]_vars

\* add_field(" Inserted_At\t", ..) has just been called on a schema that
\* has a field and a table name.
C1_Witness ==
    /\ call.op = "add_field"
    /\ call.name = " Inserted_At\t"
    /\ call.options # None
    /\ Len(fields) = 1
    /\ table_name = "users"

\* C2: in every schema reachable by add_field, with_field, with_table_name
\* and to_sql, no field's name, lowercased and trimmed, is "id",
\* "inserted_at" or "updated_at".
C2_NoReservedFieldName ==
    \A i \in 1..Len(fields) : ~IsReserved(fields[i].name)

\* with_field("UPDATED_AT\n", ..) has just been called on a schema with
\* two fields.
C2_Witness ==
    /\ call.op = "with_field"
    /\ call.name = "UPDATED_AT\n"
    /\ Len(fields) = 2

\* What to_sql is to emit before the user fields.
Header(tn) == "CREATE TABLE " \o tn \o " ("

SystemColumns ==
    "id UUID PRIMARY KEY DEFAULT gen_random_uuid(), "
    \o "inserted_at TIMESTAMP without time zone NOT NULL, "
    \o "updated_at TIMESTAMP without time zone NOT NULL, "

\* The strings of v with ", " between each two of them.
RECURSIVE CommaSeparated(_)
CommaSeparated(v) ==
    IF Len(v) = 0 THEN ""
    ELSE IF Len(v) = 1 THEN v[1]
    ELSE v[1] \o ", " \o CommaSeparated(Tail(v))

\* The column definitions of the user fields, in insertion order.
Columns(fs) == CommaSeparated([i \in 1..Len(fs) |-> Field_to_sql(fs[i])])

IsUnique(f) == f.options # None /\ f.options[1].unique

\* One clause per unique field, in insertion order.
RECURSIVE Clauses(_, _)
Clauses(tn, fs) ==
    IF Len(fs) = 0 THEN <<>>
    ELSE (IF IsUnique(fs[1])
          THEN <<"CONSTRAINT " \o tn \o "_" \o fs[1].name \o "_key UNIQUE ("
                 \o fs[1].name \o ")">>
          ELSE <<>>) \o Clauses(tn, Tail(fs))

\* s without its first n characters.
After(s, n) == SubSeq(s, n + 1, Len(s))

\* C3: to_sql's string begins with "CREATE TABLE <table_name> (" and the
\* three system fragments in the order id, inserted_at, updated_at, each
\* followed by ", ", and the first user field (or, with none, the closing
\* ");") comes right after them.
C3_SystemFieldsFirst ==
    call.op = "to_sql" =>
        LET start == Header(table_name) \o SystemColumns
        IN  /\ ~ret.overflow
            /\ IsPrefix(start, ret.value)
            /\ IF Len(fields) = 0
               THEN After(ret.value, Len(start)) = ");"
               ELSE IsPrefix(fields[1].name \o " ", After(ret.value, Len(start)))

\* to_sql has rendered a schema named "users" with two fields.
C3_Witness ==
    /\ call.op = "to_sql"
    /\ table_name = "users"
    /\ Len(fields) = 2

\* C4: with at least one user field, to_sql emits the fields' fragments in
\* insertion order with exactly one ", " between two consecutive ones, and
\* the last one is followed at once by ");" (no unique field) or by the
\* ", " that introduces the constraint list.
C4_UserFieldsSeparated ==
    (call.op = "to_sql" /\ Len(fields) >= 1) =>
        LET cols == Header(table_name) \o SystemColumns \o Columns(fields)
            rest == After(ret.value, Len(cols))
        IN  /\ IsPrefix(cols, ret.value)
            /\ IF \E i \in 1..Len(fields) : IsUnique(fields[i])
               THEN IsPrefix(", CONSTRAINT ", rest)
               ELSE rest = ");"

\* to_sql has rendered two fields with different names, none unique.
C4_Witness ==
    /\ call.op = "to_sql"
    /\ Len(fields) = 2
    /\ fields[1].name # fields[2].name
    /\ \A i \in 1..2 : ~IsUnique(fields[i])

\* C5: to_sql emits one "CONSTRAINT <table>_<field>_key UNIQUE (<field>)"
\* per unique field and none for another, after all column definitions,
\* in the order the fields were added, introduced by one ", " and joined
\* by ", "; with no unique field nothing stands between the last column
\* definition and ");".
C5_UniqueConstraints ==
    call.op = "to_sql" =>
        LET cols == Header(table_name) \o SystemColumns \o Columns(fields)
            cl   == Clauses(table_name, fields)
        IN  ret.value = cols
                        \o (IF cl = <<>> THEN "" ELSE ", " \o CommaSeparated(cl))
                        \o ");"

\* to_sql has rendered two unique fields with different names.
C5_Witness ==
    /\ call.op = "to_sql"
    /\ Len(fields) = 2
    /\ fields[1].name # fields[2].name
    /\ \A i \in 1..2 : IsUnique(fields[i])
    /\ table_name = "users"

\* The SQL keyword of each type.
KeywordOf(t) ==
    CASE t = "Integer"   -> "BIGINT"
      [] t = "Double"    -> "DOUBLE PRECISION"
      [] t = "Serial"    -> "BIGSERIAL"
      [] t = "Char"      -> "VARCHAR(255)"
      [] t = "Text"      -> "TEXT"
      [] t = "Timestamp" -> "TIMESTAMP WITHOUT TIME ZONE"
      [] t = "Date"      -> "DATE"
      [] t = "Time"      -> "TIME"
      [] t = "Boolean"   -> "BOOLEAN"
      [] t = "Json"      -> "JSON"
      [] t = "UUID"      -> "UUID"

\* C6: Field::to_sql returns "<name> <KEYWORD>", then " NOT NULL" if and
\* only if not_null is set, then a DEFAULT clause if and only if a default
\* is present (whatever not_null is), in that order; the unique flag does
\* not change the fragment.
C6_FieldFragment ==
    (call.op = "Field::to_sql" /\ call.options # None) =>
        LET o    == call.options[1]
            head == call.name \o " " \o KeywordOf(call.type_)
                    \o (IF o.not_null THEN " NOT NULL" ELSE "")
            rest == After(ret.value, Len(head))
        IN  /\ IsPrefix(head, ret.value)
            /\ (o.default = None => rest = "")
            /\ (o.default # None => IsPrefix(" DEFAULT ", rest))
            /\ ret.value = Field_to_sql(Field_new(call.name, call.type_,
                               Some([o EXCEPT !.unique = ~o.unique])))

\* A unique NOT NULL field with a default has been rendered.
C6_Witness ==
    /\ call.op = "Field::to_sql"
    /\ call.options # None
    /\ call.options[1].not_null
    /\ call.options[1].unique
    /\ call.options[1].default # None
    /\ call.type_ = "Timestamp"

\* C7: a present default L is rendered " DEFAULT L" for Integer, Serial,
\* Double and Boolean and " DEFAULT 'L'" for the seven other types, with L
\* copied as it is, embedded quotes included.
C7_DefaultQuoting ==
    (call.op = "Field::to_sql" /\ call.options # None
        /\ call.options[1].default # None) =>
        LET L == call.options[1].default[1]
        IN  /\ call.type_ \in {"Integer", "Serial", "Double", "Boolean"}
                 => IsSuffix(" DEFAULT " \o L, ret.value)
            /\ call.type_ \in {"Char", "Text", "Timestamp", "Date", "Time",
                               "Json", "UUID"}
                 => IsSuffix(" DEFAULT '" \o L \o "'", ret.value)

\* A Json field whose default holds a quote has been rendered.
C7_Witness ==
    /\ call.op = "Field::to_sql"
    /\ call.type_ = "Json"
    /\ call.options = Some(FieldOptions_new(FALSE, FALSE, Some("it's")))
    /\ ret.value = "name JSON DEFAULT 'it's'"

\* C8: add_field with a name that is not reserved appends one Field at the
\* end of fields, with the name as given and the given type, and leaves the
\* earlier fields and table_name as they were; and no operation removes or
\* reorders a field: fields before a step is a prefix of fields after it.
C8_AddFieldAppends ==
    [][/\ (call'.op = "add_field" /\ ~IsReserved(call'.name))
            => /\ Len(fields') = Len(fields) + 1
               /\ fields'[Len(fields')].name = call'.name
               /\ fields'[Len(fields')].type_ = call'.type_
               /\ table_name' = table_name
       /\ Len(fields) <= Len(fields')
       /\ SubSeq(fields', 1, Len(fields)) = fields]_vars

\* add_field(" Ids", ..) has appended a second field, named " Ids".
C8_Witness ==
    /\ call.op = "add_field"
    /\ call.name = " Ids"
    /\ Len(fields) = 2
    /\ fields[2].name = " Ids"
    /\ fields[1].name = "name"

\* C9: to_sql on a schema with no user field completes (no overflow of
\* fields.len() - 1) and returns the header and the three system fragments
\* followed by ");", the ", " after updated_at's fragment left in place.
C9_EmptySchemaRenders ==
    (call.op = "to_sql" /\ Len(fields) = 0) =>
        /\ ~ret.overflow
        /\ ret.value = "CREATE TABLE " \o table_name
               \o " (id UUID PRIMARY KEY DEFAULT gen_random_uuid(), "
               \o "inserted_at TIMESTAMP without time zone NOT NULL, "
               \o "updated_at TIMESTAMP without time zone NOT NULL, );"
        /\ IsSuffix("updated_at TIMESTAMP without time zone NOT NULL, );",
                    ret.value)

\* to_sql has rendered a schema with a table name and no field.
C9_Witness ==
    /\ call.op = "to_sql"
    /\ Len(fields) = 0
    /\ table_name = "t"

\* C10: to_sql leaves table_name and fields as they are, returns what the
\* schema holds at that moment, and returns the same string again when it
\* is called twice in a row.
C10_ToSqlIsPureRead ==
    [][call'.op = "to_sql"
          => /\ fields' = fields
             /\ table_name' = table_name
             /\ ret'.value = Header(table_name) \o SystemColumns
                    \o Columns(fields)
                    \o (IF Clauses(table_name, fields) = <<>> THEN ""
                        ELSE ", " \o CommaSeparated(Clauses(table_name, fields)))
                    \o ");"
             /\ (call.op = "to_sql" => ret' = ret)]_vars

\* to_sql has rendered a schema whose table name was changed and that has
\* one field.
C10_Witness ==
    /\ call.op = "to_sql"
    /\ Len(fields) = 1
    /\ table_name = "t"

C12_OptionsNormalized ==
    /\ \A i \in 1..Len(fields) : fields[i].options # None
    /\ call.op \in {"add_field", "with_field"} =>
         LET f == fields[Len(fields)]
         IN  /\ f = [name |-> call.name, type_ |-> call.type_,
                     options |-> <<[unique |-> FALSE, not_null |-> FALSE,
                                    default |-> <<>>]>>]
             /\ Field_to_sql(f) = call.name \o " " \o KeywordOf(call.type_)
             /\ unique_constraints_sql(table_name, f, f.options) = None
    /\ call.op = "to_sql" =>
         ret.value = Header(table_name) \o SystemColumns
             \o CommaSeparated([i \in 1..Len(fields) |->
                    fields[i].name \o " " \o KeywordOf(fields[i].type_)])
             \o ");"

\* add_field("name", Timestamp, None) has appended a second field.
C12_Witness ==
    /\ call.op = "add_field"
    /\ call.options = None
    /\ call.type_ = "Timestamp"
    /\ Len(fields) = 2
    /\ fields[2].options = Some(FieldOptions_default)

\* How many fields of fs are named n.
Count(fs, n) == Cardinality({i \in 1..Len(fs) : fs[i].name = n})

\* s written k times.
RECURSIVE Repeat(_, _)
Repeat(s, k) == IF k = 0 THEN "" ELSE s \o Repeat(s, k - 1)

\* C13: a name that is not reserved is added however often the schema has
\* it already, each call growing fields by one entry of that name; to_sql
\* renders one column definition per entry in insertion order and, for the
\* unique ones, one constraint clause each, all of the same name.
C13_DuplicatesKept ==
    [][/\ (call'.op \in {"add_field", "with_field"} /\ ~IsReserved(call'.name))
            => /\ Len(fields') = Len(fields) + 1
               /\ Count(fields', call'.name) = Count(fields, call'.name) + 1
       /\ (/\ call'.op = "to_sql"
           /\ Len(fields') >= 2
           /\ \A i \in 1..Len(fields') : fields'[i].name = fields'[1].name)
            => LET n      == fields'[1].name
                   clause == "CONSTRAINT " \o table_name' \o "_" \o n
                             \o "_key UNIQUE (" \o n \o ")"
                   k      == Cardinality({i \in 1..Len(fields') :
                                            IsUnique(fields'[i])})
               IN  ret'.value = Header(table_name') \o SystemColumns
                       \o Columns(fields') \o Repeat(", " \o clause, k)
                       \o ");"]_vars

\* to_sql has rendered two unique fields that are both named "name".
C13_Witness ==
    /\ call.op = "to_sql"
    /\ Len(fields) = 2
    /\ fields[1].name = "name" /\ fields[2].name = "name"
    /\ IsUnique(fields[1]) /\ IsUnique(fields[2])
    /\ ret.value = "CREATE TABLE users (id UUID PRIMARY KEY DEFAULT gen_random_uuid(), "
           \o "inserted_at TIMESTAMP without time zone NOT NULL, "
           \o "updated_at TIMESTAMP without time zone NOT NULL, "
           \o "name VARCHAR(255), name VARCHAR(255), "
           \o "CONSTRAINT users_name_key UNIQUE (name), "
           \o "CONSTRAINT users_name_key UNIQUE (name));"

\* C14: setting the table name commutes with adding a field: from every
\* schema, with_table_name then with_field gives the Schema that with_field
\* then with_table_name gives, named by the name set last;
\* with_table_name leaves the fields as they are; and to_sql reads the
\* table name when it renders, so the header and every constraint clause
\* carry the table name of that moment, whenever the fields were added.
C14_TableNameCommutes ==
    /\ \A n \in TableNames :
         /\ SchemaBuilder_with_table_name(Builder, n).schema.fields = fields
         /\ \A m \in Names, a \in FieldArgs :
              LET named == SchemaBuilder_with_field(
                               SchemaBuilder_with_table_name(Builder, n),
                               m, a[1], a[2])
                  added == SchemaBuilder_with_table_name(
                               SchemaBuilder_with_field(Builder, m, a[1], a[2]),
                               n)
              IN  named = added /\ added.schema.table_name = n
    /\ call.op = "with_table_name" => table_name = call.name
    /\ call.op = "to_sql" =>
         /\ IsPrefix("CREATE TABLE " \o table_name \o " (id ", ret.value)
         /\ LET cl == Clauses(table_name, fields)
            IN  IsSuffix((IF cl = <<>> THEN "" ELSE ", " \o CommaSeparated(cl))
                         \o ");", ret.value)

\* to_sql has rendered, under the table name "t", a schema with a unique
\* field and a second field.
C14_Witness ==
    /\ call.op = "to_sql"
    /\ table_name = "t"
    /\ Len(fields) = 2
    /\ IsUnique(fields[1])
    /\ IsSuffix(", CONSTRAINT t_name_key UNIQUE (name));", ret.value)

====
